---- MODULE Spec2Model ----
(***************************************************************************)
(* Model of the stroskovnik manufacturing price calculator:                *)
(*   src/manufacturing_calculator.py  calculate_price,                     *)
(*                                    calculate_machine_cost_per_hour,     *)
(*                                    calculate_multi_quantity_prices      *)
(*   src/utils.py                     validate_inputs                      *)
(*                                                                         *)
(* Numbers.  The program computes with Python numbers.  The model computes *)
(* with exact rationals <<n, d>> (d > 0, lowest terms), so every statement *)
(* below is a statement about the arithmetic the code writes down, not     *)
(* about binary floating-point rounding.  Division keeps Python's one      *)
(* observable fault: a zero divisor raises ZeroDivisionError.              *)
(***************************************************************************)
EXTENDS Integers, Sequences, FiniteSets, TLC

VARIABLES
    args,        \* arguments of the validate_inputs / calculate_price call
    validation,  \* what validate_inputs returned: <<is_valid, message>>
    outcome,     \* what calculate_price did: returned a dict or raised
    pc,          \* position of the single-quantity request
    margs,       \* arguments of the calculate_multi_quantity_prices call
    setup_cost_per_hour,      \* local of the same name, once defaulted
    material_discount_tiers,  \* local of the same name, once defaulted
    results,     \* the local dict results: quantity -> record
    idx,         \* how many elements of quantities the for loop has consumed
    mraised,     \* exception that left calculate_multi_quantity_prices
    mpc,         \* position of the multi-quantity call
    rate_args,   \* arguments of the calculate_machine_cost_per_hour call
    rate_result, \* what calculate_machine_cost_per_hour returned
    rate_pc,     \* position of the machine-rate call
    files,       \* the presets directory: file name -> content
    last,        \* the preset-store call made last, with what it returned
    session,     \* st.session_state['submitted_params'], when set
    form,        \* the widget values of the form submitted in this run
    app_validation, \* what validate_inputs returned in this run
    calls,       \* the engine functions this run has called, in order
    shown,       \* what this run has displayed
    app_pc       \* position of the app script in this run

priceVars == <<args, validation, outcome, pc>>
multiVars == <<margs, setup_cost_per_hour, material_discount_tiers, results, idx, mraised, mpc>>
rateVars  == <<rate_args, rate_result, rate_pc>>
storeVars == <<files, last>>
appVars   == <<session, form, app_validation, calls, shown, app_pc>>
vars == <<args, validation, outcome, pc, margs, setup_cost_per_hour,
          material_discount_tiers, results, idx, mraised, mpc,
          rate_args, rate_result, rate_pc, files, last,
          session, form, app_validation, calls, shown, app_pc>>

None == "None"

-----------------------------------------------------------------------------
(* Exact rational arithmetic standing for Python's +, -, *, / and <.        *)

Abs(n) == IF n < 0 THEN -n ELSE n

RECURSIVE GCD(_, _)
GCD(a, b) == IF b = 0 THEN a ELSE GCD(b, a % b)

Norm(n, d) ==
    LET s == IF d < 0 THEN -1 ELSE 1
        g == GCD(Abs(n), Abs(d))
    IN  <<(s * n) \div g, (s * d) \div g>>

Q(n) == <<n, 1>>
Frac(n, d) == Norm(n, d)

\* Operands are cancelled before they are multiplied, so that intermediate
\* products stay small.
RAdd(x, y) ==
    LET g == GCD(x[2], y[2])
    IN  Norm(x[1] * (y[2] \div g) + y[1] * (x[2] \div g), (x[2] \div g) * y[2])
RNeg(x) == <<-x[1], x[2]>>
RSub(x, y) == RAdd(x, RNeg(y))
RMul(x, y) ==
    LET g1 == GCD(Abs(x[1]), y[2])
        g2 == GCD(Abs(y[1]), x[2])
    IN  Norm((x[1] \div g1) * (y[1] \div g2), (x[2] \div g2) * (y[2] \div g1))
\* x / y for y # 0; a zero divisor is decided by the caller (it raises).
RInv(y) == IF y[1] < 0 THEN <<-y[2], -y[1]>> ELSE <<y[2], y[1]>>
RDiv(x, y) == RMul(x, RInv(y))
RLt(x, y) == x[1] * y[2] < y[1] * x[2]
RLe(x, y) == x[1] * y[2] <= y[1] * x[2]
RZero(x) == x[1] = 0

-----------------------------------------------------------------------------
(* utils.validate_inputs                                                    *)

\* The validator with the labor check moved ahead of the production-time check.
validate_inputs_labor_first(machine_cost_per_hour, material_cost_per_unit, production_time_minutes, labor_cost_per_hour, overhead_percentage, profit_margin_percentage, batch_size) ==
    IF RLt(machine_cost_per_hour, Q(0))
    THEN <<FALSE, "Machine cost per hour cannot be negative.">>
    ELSE IF RLt(material_cost_per_unit, Q(0))
    THEN <<FALSE, "Material cost per unit cannot be negative.">>
    ELSE IF RLt(labor_cost_per_hour, Q(0))
    THEN <<FALSE, "Labor cost per hour cannot be negative.">>
    ELSE IF RLe(production_time_minutes, Q(0))
    THEN <<FALSE, "Production time must be greater than zero.">>
    ELSE IF RLt(overhead_percentage, Q(0)) \/ RLt(Q(100), overhead_percentage)
    THEN <<FALSE, "Overhead percentage must be between 0 and 100.">>
    ELSE IF RLt(profit_margin_percentage, Q(0)) \/ RLt(Q(100), profit_margin_percentage)
    THEN <<FALSE, "Profit margin percentage must be between 0 and 100.">>
    ELSE IF batch_size <= 0
    THEN <<FALSE, "Batch size must be greater than zero.">>
    ELSE <<TRUE, "Inputs valid">>

validate_inputs(machine_cost_per_hour, material_cost_per_unit, production_time_minutes, labor_cost_per_hour, overhead_percentage, profit_margin_percentage, batch_size) ==
    IF RLt(machine_cost_per_hour, Q(0))
    THEN <<FALSE, "Machine cost per hour cannot be negative.">>
    ELSE IF RLt(material_cost_per_unit, Q(0))
    THEN <<FALSE, "Material cost per unit cannot be negative.">>
    ELSE IF RLe(production_time_minutes, Q(0))
    THEN <<FALSE, "Production time must be greater than zero.">>
    ELSE IF RLt(labor_cost_per_hour, Q(0))
    THEN <<FALSE, "Labor cost per hour cannot be negative.">>
    ELSE IF RLt(overhead_percentage, Q(0)) \/ RLt(Q(100), overhead_percentage)
    THEN <<FALSE, "Overhead percentage must be between 0 and 100.">>
    ELSE IF RLt(profit_margin_percentage, Q(0)) \/ RLt(Q(100), profit_margin_percentage)
    THEN <<FALSE, "Profit margin percentage must be between 0 and 100.">>
    ELSE IF batch_size <= 0
    THEN <<FALSE, "Batch size must be greater than zero.">>
    ELSE <<TRUE, "Inputs valid">>

-----------------------------------------------------------------------------
(* manufacturing_calculator.calculate_machine_cost_per_hour                 *)

\* The hourly rate with the labor component left out of the sum.
calculate_machine_cost_without_labor(electricity_cost_per_hour, maintenance_cost_per_hour, depreciation_cost_per_hour, facility_cost_per_hour, other_costs_per_hour, labor_cost_per_hour) ==
    RAdd(RAdd(RAdd(RAdd(electricity_cost_per_hour, maintenance_cost_per_hour),
                   depreciation_cost_per_hour),
              facility_cost_per_hour),
         other_costs_per_hour)

calculate_machine_cost_per_hour(electricity_cost_per_hour, maintenance_cost_per_hour, depreciation_cost_per_hour, facility_cost_per_hour, other_costs_per_hour, labor_cost_per_hour) ==
    RAdd(RAdd(RAdd(RAdd(RAdd(electricity_cost_per_hour, maintenance_cost_per_hour),
                        depreciation_cost_per_hour),
                   facility_cost_per_hour),
              other_costs_per_hour),
         labor_cost_per_hour)

-----------------------------------------------------------------------------
(* manufacturing_calculator.calculate_price                                 *)

\* Production time taken in minutes, without the conversion to hours.
production_time_unconverted(production_time_minutes) == production_time_minutes

production_time_hours(production_time_minutes) == RDiv(production_time_minutes, Q(60))

machine_cost_per_piece(machine_cost_per_hour, hours) == RMul(machine_cost_per_hour, hours)

\* Labor cost charged whatever the include_labor_cost flag says.
labor_cost_always(labor_cost_per_hour, hours, include_labor_cost) ==
    RMul(labor_cost_per_hour, hours)

labor_cost_per_piece(labor_cost_per_hour, hours, include_labor_cost) ==
    IF include_labor_cost THEN RMul(labor_cost_per_hour, hours) ELSE Q(0)

\* Direct cost that leaves the additional material cost out.
direct_cost_without_additional(machine, labor, material, additional) ==
    RAdd(RAdd(machine, labor), material)

direct_cost_per_piece(machine, labor, material, additional) ==
    RAdd(RAdd(RAdd(machine, labor), material), additional)

\* Overhead that takes the percentage as a factor, without the division by 100.
overhead_cost_unscaled(direct, overhead_percentage) ==
    RMul(direct, overhead_percentage)

overhead_cost_per_piece(direct, overhead_percentage) ==
    RMul(direct, RDiv(overhead_percentage, Q(100)))

base_cost_per_piece(direct, overhead) == RAdd(direct, overhead)

profit_per_piece(base, profit_margin_percentage) ==
    RMul(base, RDiv(profit_margin_percentage, Q(100)))

price_per_piece(base, profit) == RAdd(base, profit)

\* Batch total that reports the price of one piece.
total_batch_cost_one_piece(price, batch_size) == price

total_batch_cost(price, batch_size) == RMul(price, Q(batch_size))

\* (component / total_cost) * 100, for total_cost # 0
percentage(component, total_cost) == RMul(RDiv(component, total_cost), Q(100))

Raised(e) == [raised |-> e]
Returned(v) == [raised |-> None, value |-> v]

calculate_price(a) ==
    LET hours      == production_time_hours(a.production_time_minutes)
        machine    == machine_cost_per_piece(a.machine_cost_per_hour, hours)
        labor      == labor_cost_per_piece(a.labor_cost_per_hour, hours, a.include_labor_cost)
        material   == a.material_cost_per_unit
        additional == a.additional_material_cost
        direct     == direct_cost_per_piece(machine, labor, material, additional)
        overhead   == overhead_cost_per_piece(direct, a.overhead_percentage)
        base       == base_cost_per_piece(direct, overhead)
        profit     == profit_per_piece(base, a.profit_margin_percentage)
        price      == price_per_piece(base, profit)
        batch      == total_batch_cost(price, a.batch_size)
        total_cost == price
    IN  IF RZero(total_cost)
        THEN Raised("ZeroDivisionError")
        ELSE Returned(
               [machine_cost_per_piece   |-> machine,
                labor_cost_per_piece     |-> labor,
                material_cost_per_piece  |-> material,
                additional_material_cost |-> additional,
                direct_cost_per_piece    |-> direct,
                overhead_cost_per_piece  |-> overhead,
                base_cost_per_piece      |-> base,
                profit_per_piece         |-> profit,
                price_per_piece          |-> price,
                total_batch_cost         |-> batch,
                machine_cost_percentage  |-> percentage(machine, total_cost),
                material_cost_percentage |-> percentage(material, total_cost),
                additional_material_cost_percentage |-> percentage(additional, total_cost),
                labor_cost_percentage    |-> percentage(labor, total_cost),
                overhead_cost_percentage |-> percentage(overhead, total_cost),
                base_cost_percentage     |-> percentage(base, total_cost),
                profit_percentage        |-> percentage(profit, total_cost)])

-----------------------------------------------------------------------------
(* Single-quantity requests: the arguments are drawn from small sets that   *)
(* hold one value on each side of every check of validate_inputs.           *)

MachineCosts    == {Q(-1), Q(0), Q(60)}
MaterialCosts   == {Q(-1), Q(0), Q(2)}
ProductionTimes == {Q(0), Q(6), Frac(5, 2)}
LaborCosts      == {Q(-1), Q(0), Q(30)}
Overheads       == {Q(0), Q(20), Q(101)}
ProfitMargins   == {Q(-1), Q(25), Q(100)}
AdditionalCosts == {Q(0), Frac(1, 2)}
BatchSizes      == {0, 1, 3}

PriceArgs ==
    [machine_cost_per_hour    : MachineCosts,
     material_cost_per_unit   : MaterialCosts,
     production_time_minutes  : ProductionTimes,
     labor_cost_per_hour      : LaborCosts,
     overhead_percentage      : Overheads,
     profit_margin_percentage : ProfitMargins,
     additional_material_cost : AdditionalCosts,
     batch_size               : BatchSizes,
     include_labor_cost       : BOOLEAN]

RateIdle ==
    /\ rate_args = None
    /\ rate_result = None
    /\ rate_pc = "idle"

StoreIdle ==
    /\ files = <<>>
    /\ last = None

AppIdle ==
    /\ session = None
    /\ form = None
    /\ app_validation = None
    /\ calls = <<>>
    /\ shown = None
    /\ app_pc = "idle"

MultiIdle ==
    /\ margs = None
    /\ setup_cost_per_hour = None
    /\ material_discount_tiers = None
    /\ results = <<>>
    /\ idx = 0
    /\ mraised = None
    /\ mpc = "idle"

InitPrice ==
    /\ args \in PriceArgs
    /\ validation = None
    /\ outcome = None
    /\ pc = "start"
    /\ MultiIdle
    /\ RateIdle
    /\ StoreIdle
    /\ AppIdle

ValidateInputs ==
    /\ pc = "start"
    /\ validation' = validate_inputs(args.machine_cost_per_hour, args.material_cost_per_unit,
                                     args.production_time_minutes, args.labor_cost_per_hour,
                                     args.overhead_percentage, args.profit_margin_percentage,
                                     args.batch_size)
    /\ pc' = "validated"
    /\ UNCHANGED <<args, outcome>>
    /\ UNCHANGED <<multiVars, rateVars, storeVars, appVars>>

CalculatePrice ==
    /\ pc = "validated"
    /\ outcome' = calculate_price(args)
    /\ pc' = "done"
    /\ UNCHANGED <<args, validation>>
    /\ UNCHANGED <<multiVars, rateVars, storeVars, appVars>>

NextPrice == ValidateInputs \/ CalculatePrice

SpecPrice == InitPrice /\ [][NextPrice]_vars

-----------------------------------------------------------------------------
(* manufacturing_calculator.calculate_multi_quantity_prices                 *)
(*                                                                         *)
(* An optional argument is <<>> when it is None and <<v>> when it is given. *)
(* A dict is the sequence of its (key, value) items in insertion order,     *)
(* with pairwise distinct keys.                                             *)

PyNone == <<>>
Some(v) == <<v>>

\* Python's order on (tier_quantity, discount_percentage) tuples
TupleLt(s, t) == s[1] < t[1] \/ (s[1] = t[1] /\ RLt(s[2], t[2]))

Remove(seq, i) == [j \in 1..(Len(seq) - 1) |-> IF j < i THEN seq[j] ELSE seq[j + 1]]

\* sorted(d.items())
RECURSIVE sorted(_)
sorted(items) ==
    IF items = <<>> THEN <<>>
    ELSE LET i == CHOOSE k \in 1..Len(items) :
                      \A j \in 1..Len(items) : j = k \/ TupleLt(items[k], items[j])
                                                    \/ (items[j] = items[k] /\ k < j)
         IN  <<items[i]>> \o sorted(Remove(items, i))

\* The loop of lines 74-76 over the tiers from position i on, entered with
\* applied_discount = applied.
RECURSIVE tier_loop(_, _, _, _)
tier_loop(quantity, tiers, i, applied) ==
    IF i > Len(tiers) THEN applied
    ELSE tier_loop(quantity, tiers, i + 1,
                   IF quantity >= tiers[i][1] THEN tiers[i][2] ELSE applied)

\* Tier resolution that walks the dict in insertion order, without sorting.
applied_discount_unsorted(quantity, tiers) == tier_loop(quantity, tiers, 1, Q(0))

applied_discount(quantity, tiers) == tier_loop(quantity, sorted(tiers), 1, Q(0))

\* Discounted cost that keeps the discounted share instead of removing it.
discounted_material_cost_share(material_cost_per_unit, applied) ==
    IF RLt(Q(0), applied)
    THEN RMul(material_cost_per_unit, RDiv(applied, Q(100)))
    ELSE material_cost_per_unit

discounted_material_cost(material_cost_per_unit, applied) ==
    IF RLt(Q(0), applied)
    THEN RMul(material_cost_per_unit, RSub(Q(1), RDiv(applied, Q(100))))
    ELSE material_cost_per_unit

\* Default taken on any falsy rate ("if not setup_cost_per_hour"), so on 0 too.
default_setup_cost_falsy(given, machine_cost_per_hour) ==
    IF given = PyNone \/ RZero(given[1]) THEN machine_cost_per_hour ELSE given[1]

default_setup_cost_per_hour(given, machine_cost_per_hour) ==
    IF given = PyNone THEN machine_cost_per_hour ELSE given[1]

default_material_discount_tiers(given) ==
    IF given = PyNone THEN <<>> ELSE given[1]

setup_cost(rate, setup_time_minutes) == RMul(rate, RDiv(setup_time_minutes, Q(60)))

\* Setup cost charged in full to every piece.
setup_cost_per_piece_undivided(cost, quantity) == cost

\* Setup cost multiplied by the quantity instead of divided by it.
setup_cost_per_piece_multiplied(cost, quantity) == RMul(cost, Q(quantity))

setup_cost_per_piece(cost, quantity) == RDiv(cost, Q(quantity))

\* Price that leaves the setup share out.
price_with_setup_dropped(regular_price, setup_per_piece) == regular_price

price_with_setup(regular_price, setup_per_piece) == RAdd(regular_price, setup_per_piece)

\* Total that is the price of one piece.
total_cost_one_piece(price, quantity) == price

total_cost(price, quantity) == RMul(price, Q(quantity))

\* The call of calculate_price with the undiscounted material cost.
regular_args_undiscounted(m, discounted, quantity) ==
    [machine_cost_per_hour    |-> m.machine_cost_per_hour,
     material_cost_per_unit   |-> m.material_cost_per_unit,
     production_time_minutes  |-> m.production_time_minutes,
     labor_cost_per_hour      |-> m.labor_cost_per_hour,
     overhead_percentage      |-> m.overhead_percentage,
     profit_margin_percentage |-> m.profit_margin_percentage,
     additional_material_cost |-> m.additional_material_cost,
     batch_size               |-> quantity,
     include_labor_cost       |-> m.include_labor_cost]

\* The arguments of the call of calculate_price at lines 83-93
regular_args(m, discounted, quantity) ==
    [machine_cost_per_hour    |-> m.machine_cost_per_hour,
     material_cost_per_unit   |-> discounted,
     production_time_minutes  |-> m.production_time_minutes,
     labor_cost_per_hour      |-> m.labor_cost_per_hour,
     overhead_percentage      |-> m.overhead_percentage,
     profit_margin_percentage |-> m.profit_margin_percentage,
     additional_material_cost |-> m.additional_material_cost,
     batch_size               |-> quantity,
     include_labor_cost       |-> m.include_labor_cost]

\* One pass of the body of the for loop (lines 64-107) for one quantity:
\* the record stored in results[quantity], or the exception that ends the call.
quantity_record(m, rate, tiers, quantity) ==
    IF quantity = 0 THEN Raised("ZeroDivisionError")
    ELSE
    LET cost       == setup_cost(rate, m.setup_time_minutes)
        per_piece  == setup_cost_per_piece(cost, quantity)
        applied    == applied_discount(quantity, tiers)
        discounted == discounted_material_cost(m.material_cost_per_unit, applied)
        regular    == calculate_price(regular_args(m, discounted, quantity))
    IN  IF regular.raised # None THEN Raised(regular.raised)
        ELSE LET with_setup == price_with_setup(regular.value.price_per_piece, per_piece)
             IN  Returned(
                   [price_per_piece              |-> with_setup,
                    total_cost                   |-> total_cost(with_setup, quantity),
                    setup_cost_per_piece         |-> per_piece,
                    material_discount_percentage |-> applied,
                    discounted_material_cost     |-> discounted,
                    base_result                  |-> regular.value])

\* Assignment that starts a fresh dict, forgetting the earlier keys.
store_replacing(dict, quantity, record) == [k \in {quantity} |-> record]

\* results[quantity] = record
store(dict, quantity, record) ==
    [k \in (DOMAIN dict) \cup {quantity} |-> IF k = quantity THEN record ELSE dict[k]]

-----------------------------------------------------------------------------
(* Multi-quantity calls: arguments from small sets.                         *)

MaxTiers      == 3
MaxQuantities == 2

\* (tier_quantity, discount_percentage) items a tier dict is built from: the
\* documented tiers 10: 5, 50: 10, 100: 15 and two that make the discount fall
\* as the threshold rises.
TierItems      == {<<10, Q(5)>>, <<50, Q(10)>>, <<100, Q(15)>>, <<10, Q(15)>>, <<100, Q(5)>>}
Quantities     == {1, 10, 75}
\* (machine_cost_per_hour, material_cost_per_unit)
CostOptions    == {<<Q(60), Q(2)>>, <<Q(60), Q(0)>>, <<Q(0), Q(0)>>}
\* (setup_time_minutes, setup_cost_per_hour)
SetupOptions   == {<<Q(30), PyNone>>, <<Q(30), Some(Q(0))>>, <<Q(30), Some(Q(40))>>,
                   <<Q(0), PyNone>>}
\* (labor_cost_per_hour, include_labor_cost)
LaborOptions   == {<<Q(0), FALSE>>, <<Q(30), TRUE>>}

DistinctKeys(items) ==
    \A i, j \in 1..Len(items) : i # j => items[i][1] # items[j][1]

TierDicts ==
    UNION {{d \in [1..n -> TierItems] : DistinctKeys(d)} : n \in 0..MaxTiers}

QuantityLists == UNION {[1..n -> Quantities] : n \in 1..MaxQuantities}

MultiArgs ==
    {[machine_cost_per_hour    |-> c[1],
      material_cost_per_unit   |-> c[2],
      production_time_minutes  |-> Q(6),
      setup_time_minutes       |-> su[1],
      quantities               |-> qs,
      setup_cost_per_hour      |-> su[2],
      material_discount_tiers  |-> td,
      overhead_percentage      |-> Q(20),
      profit_margin_percentage |-> Q(25),
      additional_material_cost |-> Q(0),
      include_labor_cost       |-> lab[2],
      labor_cost_per_hour      |-> lab[1]] :
        c \in CostOptions, su \in SetupOptions, qs \in QuantityLists,
        td \in {PyNone} \cup {Some(d) : d \in TierDicts}, lab \in LaborOptions}

PriceIdle ==
    /\ args = None
    /\ validation = None
    /\ outcome = None
    /\ pc = "idle"

InitMulti ==
    /\ margs \in MultiArgs
    /\ setup_cost_per_hour = None
    /\ material_discount_tiers = None
    /\ results = <<>>
    /\ idx = 0
    /\ mraised = None
    /\ mpc = "start"
    /\ PriceIdle
    /\ RateIdle
    /\ StoreIdle
    /\ AppIdle

\* lines 53-61: the defaults, and the empty results dict
MultiDefaults ==
    /\ mpc = "start"
    /\ setup_cost_per_hour' =
         default_setup_cost_per_hour(margs.setup_cost_per_hour, margs.machine_cost_per_hour)
    /\ material_discount_tiers' = default_material_discount_tiers(margs.material_discount_tiers)
    /\ results' = <<>>
    /\ mpc' = "loop"
    /\ UNCHANGED <<margs, idx, mraised>>
    /\ UNCHANGED <<priceVars, rateVars, storeVars, appVars>>

\* lines 63-107: one iteration of the for loop
MultiIteration ==
    /\ mpc = "loop"
    /\ idx < Len(margs.quantities)
    /\ LET quantity == margs.quantities[idx + 1]
           rec == quantity_record(margs, setup_cost_per_hour, material_discount_tiers, quantity)
       IN  IF rec.raised # None
           THEN /\ mraised' = rec.raised
                /\ mpc' = "raised"
                /\ UNCHANGED <<results, idx>>
           ELSE /\ results' = store(results, quantity, rec.value)
                /\ idx' = idx + 1
                /\ UNCHANGED <<mraised, mpc>>
    /\ UNCHANGED <<margs, setup_cost_per_hour, material_discount_tiers>>
    /\ UNCHANGED <<priceVars, rateVars, storeVars, appVars>>

\* line 109: return results
MultiReturn ==
    /\ mpc = "loop"
    /\ idx = Len(margs.quantities)
    /\ mpc' = "returned"
    /\ UNCHANGED <<margs, setup_cost_per_hour, material_discount_tiers, results, idx, mraised>>
    /\ UNCHANGED <<priceVars, rateVars, storeVars, appVars>>

NextMulti == MultiDefaults \/ MultiIteration \/ MultiReturn

SpecMulti == InitMulti /\ [][NextMulti]_vars

-----------------------------------------------------------------------------
(* Machine-rate calls: the six hourly components, in the order of the       *)
(* parameters: electricity, maintenance, depreciation, facility, other,     *)
(* labor.                                                                   *)

HourlyCosts == {Q(0), Frac(1, 2), Q(3)}

InitRate ==
    /\ rate_args \in [1..6 -> HourlyCosts]
    /\ rate_result = None
    /\ rate_pc = "start"
    /\ PriceIdle
    /\ MultiIdle
    /\ StoreIdle
    /\ AppIdle

CalculateMachineCost ==
    /\ rate_pc = "start"
    /\ rate_result' = calculate_machine_cost_per_hour(rate_args[1], rate_args[2], rate_args[3],
                                                      rate_args[4], rate_args[5], rate_args[6])
    /\ rate_pc' = "done"
    /\ UNCHANGED rate_args
    /\ UNCHANGED <<priceVars, multiVars, storeVars, appVars>>

NextRate == CalculateMachineCost

SpecRate == InitRate /\ [][NextRate]_vars

-----------------------------------------------------------------------------
(* Claims about validate_inputs and calculate_price, under SpecPrice.       *)

PriceDone     == pc = "done"
PriceReturned == pc = "done" /\ outcome.raised = None
Accepted      == validation[1]

\* C1: every input that validate_inputs accepts makes calculate_price return a
\* complete result; no accepted request ends in a division fault.
C1_AcceptedInputReturns ==
    (PriceDone /\ Accepted) => outcome.raised = None

\* The seven checks of the validator in the claimed order, each with whether
\* it fails on the current arguments and the reason it must give.
C4_Checks ==
    << <<args.machine_cost_per_hour[1] < 0, "Machine cost per hour cannot be negative.">>,
       <<args.material_cost_per_unit[1] < 0, "Material cost per unit cannot be negative.">>,
       <<args.production_time_minutes[1] <= 0, "Production time must be greater than zero.">>,
       <<args.labor_cost_per_hour[1] < 0, "Labor cost per hour cannot be negative.">>,
       <<args.overhead_percentage[1] < 0
           \/ args.overhead_percentage[1] > 100 * args.overhead_percentage[2],
         "Overhead percentage must be between 0 and 100.">>,
       <<args.profit_margin_percentage[1] < 0
           \/ args.profit_margin_percentage[1] > 100 * args.profit_margin_percentage[2],
         "Profit margin percentage must be between 0 and 100.">>,
       <<args.batch_size <= 0, "Batch size must be greater than zero.">> >>

C4_Failing == {i \in 1..7 : C4_Checks[i][1]}

C4_First == CHOOSE i \in C4_Failing : \A j \in C4_Failing : i <= j

\* C4: validate_inputs answers with the reason of the first failing check in
\* the order machine, material, time, labor, overhead, profit, batch, even when
\* several fail; it answers (True, "Inputs valid") exactly when none fails; the
\* seven reasons and the success message are pairwise distinct.
C4_FirstFailingCheckReported ==
    pc # "start" =>
        /\ validation[1] <=> (C4_Failing = {})
        /\ C4_Failing = {} => validation = <<TRUE, "Inputs valid">>
        /\ C4_Failing # {} => validation = <<FALSE, C4_Checks[C4_First][2]>>
        /\ Cardinality({C4_Checks[i][2] : i \in 1..7} \cup {"Inputs valid"}) = 8

C4_Witness ==
    /\ pc = "validated"
    /\ Cardinality(C4_Failing) >= 3
    /\ C4_First = 2
    /\ validation = <<FALSE, "Material cost per unit cannot be negative.">>

\* C5: every returned result satisfies direct = machine + labor + material +
\* additional, overhead = direct * overhead%/100, base = direct + overhead,
\* profit = base * profit%/100 and price = base + profit, exactly.
C5_CostChain ==
    PriceReturned =>
        LET r == outcome.value
        IN  /\ r.direct_cost_per_piece =
                 RAdd(r.machine_cost_per_piece,
                      RAdd(r.labor_cost_per_piece,
                           RAdd(r.material_cost_per_piece, r.additional_material_cost)))
            /\ RMul(r.overhead_cost_per_piece, Q(100)) =
                 RMul(r.direct_cost_per_piece, args.overhead_percentage)
            /\ r.base_cost_per_piece = RAdd(r.direct_cost_per_piece, r.overhead_cost_per_piece)
            /\ RMul(r.profit_per_piece, Q(100)) =
                 RMul(r.base_cost_per_piece, args.profit_margin_percentage)
            /\ r.price_per_piece = RAdd(r.base_cost_per_piece, r.profit_per_piece)

C5_Witness ==
    /\ PriceReturned
    /\ Accepted
    /\ RLt(Q(0), outcome.value.overhead_cost_per_piece)
    /\ RLt(Q(0), outcome.value.profit_per_piece)
    /\ RLt(Q(0), outcome.value.labor_cost_per_piece)
    /\ RLt(Q(0), outcome.value.additional_material_cost)

C6_Amounts(r) ==
    RAdd(r.machine_cost_per_piece,
         RAdd(r.labor_cost_per_piece,
              RAdd(r.material_cost_per_piece,
                   RAdd(r.additional_material_cost,
                        RAdd(r.overhead_cost_per_piece, r.profit_per_piece)))))

C6_Percentages(r) ==
    RAdd(r.machine_cost_percentage,
         RAdd(r.labor_cost_percentage,
              RAdd(r.material_cost_percentage,
                   RAdd(r.additional_material_cost_percentage,
                        RAdd(r.overhead_cost_percentage, r.profit_percentage)))))

\* C6: whenever price_per_piece > 0, the six percentages (machine, labor,
\* material, additional material, overhead, profit) sum to 100 and the six
\* amounts sum to price_per_piece.
C6_PercentagesSumTo100 ==
    (PriceReturned /\ RLt(Q(0), outcome.value.price_per_piece)) =>
        /\ C6_Percentages(outcome.value) = Q(100)
        /\ C6_Amounts(outcome.value) = outcome.value.price_per_piece

C6_Witness ==
    /\ PriceReturned
    /\ Accepted
    /\ RLt(Q(0), outcome.value.price_per_piece)
    /\ \A f \in {"machine_cost_percentage", "labor_cost_percentage",
                 "material_cost_percentage", "additional_material_cost_percentage",
                 "overhead_cost_percentage", "profit_percentage"} :
           RLt(Q(0), outcome.value[f])

C9_BatchFree(r) == [r EXCEPT !.total_batch_cost = Q(0)]

\* C9: a call that differs only in batch_size returns the same value in every
\* field except total_batch_cost, and total_batch_cost = price_per_piece *
\* batch_size in both.
C9_BatchSizeIndependence ==
    PriceReturned =>
        /\ outcome.value.total_batch_cost =
             RMul(outcome.value.price_per_piece, Q(args.batch_size))
        /\ \A b \in BatchSizes :
              LET o == calculate_price([args EXCEPT !.batch_size = b])
              IN  /\ o.raised = None
                  /\ C9_BatchFree(o.value) = C9_BatchFree(outcome.value)
                  /\ o.value.total_batch_cost = RMul(outcome.value.price_per_piece, Q(b))

C9_Witness ==
    /\ PriceReturned
    /\ Accepted
    /\ args.batch_size = 3
    /\ outcome.value.total_batch_cost # outcome.value.price_per_piece
    /\ calculate_price([args EXCEPT !.batch_size = 1]).value.total_batch_cost
         = outcome.value.price_per_piece

-----------------------------------------------------------------------------
(* Claims about calculate_multi_quantity_prices, under SpecMulti.           *)

MultiReturned == mpc = "returned"

\* The tier items and the setup rate as the caller passed them
GivenTiers ==
    IF margs.material_discount_tiers = PyNone THEN <<>> ELSE margs.material_discount_tiers[1]

GivenSetupRate ==
    IF margs.setup_cost_per_hour = PyNone
    THEN margs.machine_cost_per_hour
    ELSE margs.setup_cost_per_hour[1]

Qualifying(q) == {i \in 1..Len(GivenTiers) : GivenTiers[i][1] <= q}

HighestQualifying(q) ==
    CHOOSE i \in Qualifying(q) : \A j \in Qualifying(q) : GivenTiers[j][1] <= GivenTiers[i][1]

DocumentedTiers == {<<10, Q(5)>>, <<50, Q(10)>>, <<100, Q(15)>>}

\* C2: for every quantity, material_discount_percentage is the discount of the
\* tier with the highest threshold <= quantity, and 0 when no threshold is
\* <= quantity, when the mapping is empty or when it is None.
C2_HighestQualifyingTierWins ==
    \A q \in DOMAIN results :
        results[q].material_discount_percentage =
            IF Qualifying(q) = {} THEN Q(0) ELSE GivenTiers[HighestQualifying(q)][2]

C2_Witness ==
    /\ MultiReturned
    /\ {GivenTiers[i] : i \in 1..Len(GivenTiers)} = DocumentedTiers
    /\ GivenTiers[1][1] > GivenTiers[2][1]
    /\ 75 \in DOMAIN results
    /\ results[75].material_discount_percentage = Q(10)

\* C3: in every record, discounted_material_cost = material_cost_per_unit *
\* (1 - material_discount_percentage/100) for the percentage of the same
\* record; below all thresholds the percentage is 0 and the cost is unchanged.
C3_DiscountedMaterialCost ==
    \A q \in DOMAIN results :
        /\ RMul(results[q].discounted_material_cost, Q(100)) =
             RMul(margs.material_cost_per_unit,
                  RSub(Q(100), results[q].material_discount_percentage))
        /\ Qualifying(q) = {} =>
             /\ results[q].material_discount_percentage = Q(0)
             /\ results[q].discounted_material_cost = margs.material_cost_per_unit

C3_Witness ==
    /\ MultiReturned
    /\ \E q1, q2 \in DOMAIN results :
          /\ Qualifying(q1) = {}
          /\ GivenTiers # <<>>
          /\ results[q1].discounted_material_cost = Q(2)
          /\ results[q2].material_discount_percentage = Q(15)
          /\ results[q2].discounted_material_cost = Frac(17, 10)

\* C7: for every quantity q, setup_cost_per_piece * q is the whole setup cost
\* setup_rate * setup_time_minutes / 60.
C7_SetupAmortization ==
    \A q \in DOMAIN results :
        RMul(RMul(results[q].setup_cost_per_piece, Q(q)), Q(60)) =
            RMul(GivenSetupRate, margs.setup_time_minutes)

C7_Witness ==
    /\ MultiReturned
    /\ 10 \in DOMAIN results
    /\ margs.setup_cost_per_hour = Some(Q(40))
    /\ results[10].setup_cost_per_piece = Q(2)

\* C8: the setup rate in use is machine_cost_per_hour exactly when
\* setup_cost_per_hour is None; a given rate, 0 included, is used as given,
\* and every record's setup cost per piece is computed from it.
C8_SetupRateDefault ==
    mpc # "start" =>
        /\ margs.setup_cost_per_hour = PyNone => setup_cost_per_hour = margs.machine_cost_per_hour
        /\ margs.setup_cost_per_hour # PyNone => setup_cost_per_hour = margs.setup_cost_per_hour[1]
        /\ \A q \in DOMAIN results :
              (margs.setup_cost_per_hour = Some(Q(0))) => results[q].setup_cost_per_piece = Q(0)

C8_Witness ==
    /\ MultiReturned
    /\ margs.setup_cost_per_hour = Some(Q(0))
    /\ margs.machine_cost_per_hour = Q(60)
    /\ margs.setup_time_minutes = Q(30)
    /\ setup_cost_per_hour = Q(0)
    /\ \E q \in DOMAIN results : results[q].setup_cost_per_piece = Q(0)

C10_SetupCost == RMul(GivenSetupRate, RDiv(margs.setup_time_minutes, Q(60)))

\* C10 as claimed: for all quantities q1 < q2 of one call,
\* setup_cost_per_piece(q2) < setup_cost_per_piece(q1).
C10_StrictlyDecreasing ==
    \A q1, q2 \in DOMAIN results :
        q1 < q2 => RLt(results[q2].setup_cost_per_piece, results[q1].setup_cost_per_piece)

\* C10 as amended: for q1 < q2, setup_cost_per_piece(q2) is strictly smaller
\* than setup_cost_per_piece(q1) when the setup cost is positive, and both are
\* 0 when the setup cost is 0 (setup time 0 or setup rate 0).
C10_DecreasingWhenSetupCostPositive ==
    \A q1, q2 \in DOMAIN results :
        q1 < q2 =>
            IF RLt(Q(0), C10_SetupCost)
            THEN RLt(results[q2].setup_cost_per_piece, results[q1].setup_cost_per_piece)
            ELSE /\ results[q1].setup_cost_per_piece = Q(0)
                 /\ results[q2].setup_cost_per_piece = Q(0)

C10_Witness ==
    /\ MultiReturned
    /\ RLt(Q(0), C10_SetupCost)
    /\ {10, 75} \subseteq DOMAIN results
    /\ RLt(results[75].setup_cost_per_piece, results[10].setup_cost_per_piece)

\* q2 reaches a tier threshold that q1 does not reach
C11_Crosses(q1, q2) ==
    \E i \in 1..Len(GivenTiers) : q1 < GivenTiers[i][1] /\ GivenTiers[i][1] <= q2

\* C11 as claimed: for q1 < q2 where q2 reaches a tier threshold that q1 does
\* not reach, price_per_piece(q2) <= price_per_piece(q1).
C11_NonIncreasingAcrossThreshold ==
    \A q1, q2 \in DOMAIN results :
        (q1 < q2 /\ C11_Crosses(q1, q2)) =>
            RLe(results[q2].price_per_piece, results[q1].price_per_piece)

\* C11 as amended: for q1 < q2 where q2 reaches a tier threshold that q1 does
\* not reach, price_per_piece(q2) <= price_per_piece(q1) whenever the discount
\* applied at q2 is at least the discount applied at q1.
C11_NonIncreasingWhenDiscountGrows ==
    \A q1, q2 \in DOMAIN results :
        (/\ q1 < q2
         /\ C11_Crosses(q1, q2)
         /\ RLe(results[q1].material_discount_percentage,
                results[q2].material_discount_percentage)) =>
            RLe(results[q2].price_per_piece, results[q1].price_per_piece)

C11_Witness ==
    /\ MultiReturned
    /\ {10, 75} \subseteq DOMAIN results
    /\ C11_Crosses(10, 75)
    /\ results[10].material_discount_percentage = Q(5)
    /\ results[75].material_discount_percentage = Q(10)
    /\ margs.setup_time_minutes = Q(0)
    /\ RLt(results[75].price_per_piece, results[10].price_per_piece)

\* C12: every record satisfies price_per_piece = base_result.price_per_piece +
\* setup_cost_per_piece and total_cost = price_per_piece * q.
C12_PriceWithSetup ==
    \A q \in DOMAIN results :
        /\ RSub(results[q].price_per_piece, results[q].setup_cost_per_piece) =
             results[q].base_result.price_per_piece
        /\ results[q].total_cost = RMul(Q(q), results[q].price_per_piece)

C12_Witness ==
    /\ MultiReturned
    /\ \E q \in DOMAIN results :
          /\ q > 1
          /\ RLt(Q(0), results[q].setup_cost_per_piece)
          /\ RLt(results[q].base_result.price_per_piece, results[q].price_per_piece)

\* C13: base_result of the record for q is what calculate_price returns for
\* the caller's machine rate, production time, labor rate, overhead, profit,
\* additional material and include-labor flag, with the record's
\* discounted_material_cost as material cost and q as batch size; no setup
\* cost enters it.
C13_BaseResultIsCalculatePrice ==
    \A q \in DOMAIN results :
        LET o == calculate_price(
                   [machine_cost_per_hour    |-> margs.machine_cost_per_hour,
                    material_cost_per_unit   |-> results[q].discounted_material_cost,
                    production_time_minutes  |-> margs.production_time_minutes,
                    labor_cost_per_hour      |-> margs.labor_cost_per_hour,
                    overhead_percentage      |-> margs.overhead_percentage,
                    profit_margin_percentage |-> margs.profit_margin_percentage,
                    additional_material_cost |-> margs.additional_material_cost,
                    batch_size               |-> q,
                    include_labor_cost       |-> margs.include_labor_cost])
        IN  /\ o.raised = None
            /\ results[q].base_result = o.value

C13_Witness ==
    /\ MultiReturned
    /\ margs.include_labor_cost
    /\ RLt(Q(0), C10_SetupCost)
    /\ \E q \in DOMAIN results :
          /\ q > 1
          /\ RLt(Q(0), results[q].material_discount_percentage)
          /\ RLt(Q(0), results[q].base_result.labor_cost_per_piece)
          /\ RLt(results[q].base_result.material_cost_per_piece, margs.material_cost_per_unit)
          /\ results[q].base_result.total_batch_cost =
               RMul(Q(q), results[q].base_result.price_per_piece)

C17_Example ==
    /\ margs.machine_cost_per_hour = Q(60)
    /\ margs.material_cost_per_unit = Q(2)
    /\ margs.production_time_minutes = Q(6)
    /\ margs.overhead_percentage = Q(20)
    /\ margs.profit_margin_percentage = Q(25)
    /\ margs.additional_material_cost = Q(0)
    /\ ~margs.include_labor_cost
    /\ margs.setup_time_minutes = Q(30)
    /\ margs.setup_cost_per_hour = PyNone
    /\ margs.material_discount_tiers \in {PyNone, Some(<<>>)}
    /\ 10 \in DOMAIN results

\* C17: machine 60/h, material 2, 6 min, overhead 20%, profit 25%, setup time
\* 30 min, no setup rate, no tiers, quantity 10 give setup cost 30,
\* setup_cost_per_piece 3, price_per_piece 15 and total_cost 150.
C17_MultiQuantityExample ==
    C17_Example =>
        /\ RMul(results[10].setup_cost_per_piece, Q(10)) = Q(30)
        /\ results[10].setup_cost_per_piece = Q(3)
        /\ results[10].price_per_piece = Q(15)
        /\ results[10].total_cost = Q(150)

C17_Witness ==
    /\ MultiReturned
    /\ C17_Example
    /\ margs.material_discount_tiers = PyNone
    /\ results[10].base_result.price_per_piece = Q(12)
    /\ results[10].total_cost = Q(150)

-----------------------------------------------------------------------------
(* Further claims about calculate_multi_quantity_prices, under SpecMulti.   *)

\* The given tier items inserted in the order p
C21_Reordered(p) == [i \in 1..Len(GivenTiers) |-> GivenTiers[p[i]]]

\* C21: for every quantity, the material_discount_percentage of the call is
\* the one every mapping with the same (threshold, discount) pairs inserted in
\* another order gives.
C21_TierOrderIndependence ==
    \A q \in DOMAIN results :
        \A p \in Permutations(1..Len(GivenTiers)) :
            applied_discount(q, C21_Reordered(p)) = results[q].material_discount_percentage

C21_Witness ==
    /\ MultiReturned
    /\ Len(GivenTiers) = 3
    /\ GivenTiers[1][1] = 100
    /\ GivenTiers[2][1] = 10
    /\ GivenTiers[3] = <<50, Q(10)>>
    /\ 75 \in DOMAIN results
    /\ results[75].material_discount_percentage = Q(10)

\* The record of the call that asks for q alone, every other input the same
C22_Alone(q) ==
    LET m == [margs EXCEPT !.quantities = <<q>>]
    IN  quantity_record(m, default_setup_cost_per_hour(m.setup_cost_per_hour, m.machine_cost_per_hour),
                        default_material_discount_tiers(m.material_discount_tiers), q)

\* C22: the returned mapping has exactly the distinct requested quantities as
\* keys, and the record of q is the record of the call that requests q alone:
\* other quantities, their order and repetitions of q do not change it.
C22_KeysAndRecordsPerQuantity ==
    MultiReturned =>
        /\ DOMAIN results = {margs.quantities[i] : i \in 1..Len(margs.quantities)}
        /\ \A q \in DOMAIN results :
              /\ C22_Alone(q).raised = None
              /\ results[q] = C22_Alone(q).value

C22_Witness ==
    /\ MultiReturned
    /\ Len(margs.quantities) = 2
    /\ margs.quantities[1] = 75
    /\ margs.quantities[2] = 10
    /\ DOMAIN results = {10, 75}
    /\ results[10].price_per_piece # results[75].price_per_piece

\* C25: for every requested quantity, total_cost is base_result's
\* total_batch_cost plus the whole setup cost, setup rate * setup_time_minutes
\* / 60, charged once.
C25_TotalIsBatchPlusSetupOnce ==
    \A q \in DOMAIN results :
        results[q].total_cost = RAdd(results[q].base_result.total_batch_cost, C10_SetupCost)

C25_Witness ==
    /\ MultiReturned
    /\ 75 \in DOMAIN results
    /\ RLt(Q(0), C10_SetupCost)
    /\ results[75].total_cost =
          RAdd(RMul(results[75].base_result.price_per_piece, Q(75)), C10_SetupCost)
    /\ results[75].total_cost # RMul(results[75].base_result.price_per_piece, Q(75))

-----------------------------------------------------------------------------
(* Further claims about calculate_price, under SpecPrice.                   *)

\* C15: labor_cost_per_piece is labor_cost_per_hour * production_time_minutes
\* / 60 when include_labor_cost is true and 0 when it is false; with the flag
\* false, a call with any other labor rate has the same outcome in every field.
C15_LaborOnlyWhenIncluded ==
    /\ PriceReturned =>
          RMul(outcome.value.labor_cost_per_piece, Q(60)) =
              IF args.include_labor_cost
              THEN RMul(args.labor_cost_per_hour, args.production_time_minutes)
              ELSE Q(0)
    /\ (PriceDone /\ ~args.include_labor_cost) =>
          \A l \in LaborCosts :
              calculate_price([args EXCEPT !.labor_cost_per_hour = l]) = outcome

C15_Witness ==
    /\ PriceReturned
    /\ Accepted
    /\ ~args.include_labor_cost
    /\ args.labor_cost_per_hour = Q(30)
    /\ outcome.value.labor_cost_per_piece = Q(0)
    /\ calculate_price([args EXCEPT !.include_labor_cost = TRUE]).value.labor_cost_per_piece # Q(0)

C16_Example ==
    /\ args.machine_cost_per_hour = Q(60)
    /\ args.material_cost_per_unit = Q(2)
    /\ args.production_time_minutes = Q(6)
    /\ args.overhead_percentage = Q(20)
    /\ args.profit_margin_percentage = Q(25)
    /\ args.additional_material_cost = Q(0)
    /\ args.batch_size = 1
    /\ ~args.include_labor_cost

\* C16: machine 60/h, material 2, 6 min, overhead 20%, profit 25%, additional
\* material 0, batch 1, no separate labor give machine_cost_per_piece 6,
\* direct cost 8, overhead 1.60, base cost 9.60, profit 2.40, price 12.
C16_SingleQuantityExample ==
    (PriceDone /\ C16_Example) =>
        /\ outcome.raised = None
        /\ outcome.value.machine_cost_per_piece = Q(6)
        /\ outcome.value.direct_cost_per_piece = Q(8)
        /\ outcome.value.overhead_cost_per_piece = Frac(160, 100)
        /\ outcome.value.base_cost_per_piece = Frac(960, 100)
        /\ outcome.value.profit_per_piece = Frac(240, 100)
        /\ outcome.value.price_per_piece = Q(12)

C16_Witness ==
    /\ PriceReturned
    /\ Accepted
    /\ C16_Example
    /\ outcome.value.price_per_piece = Q(12)
    /\ outcome.value.total_batch_cost = Q(12)

-----------------------------------------------------------------------------
(* Claims about calculate_machine_cost_per_hour, under SpecRate.            *)

RECURSIVE C14_Sum(_, _)
C14_Sum(values, n) == IF n = 0 THEN Q(0) ELSE RAdd(values[n], C14_Sum(values, n - 1))

\* C14: calculate_machine_cost_per_hour returns the sum of its six components,
\* and returns the same value when the six values are handed to the
\* parameters in any other order.
C14_SumOfSixComponents ==
    rate_pc = "done" =>
        /\ rate_result = C14_Sum(rate_args, 6)
        /\ \A pi \in Permutations(1..6) :
              calculate_machine_cost_per_hour(rate_args[pi[1]], rate_args[pi[2]],
                                              rate_args[pi[3]], rate_args[pi[4]],
                                              rate_args[pi[5]], rate_args[pi[6]]) = rate_result

C14_Witness ==
    /\ rate_pc = "done"
    /\ rate_args = <<Q(0), Frac(1, 2), Q(3), Frac(1, 2), Q(0), Q(3)>>
    /\ rate_result = Q(7)

-----------------------------------------------------------------------------
(* utils.save_preset, load_preset, get_all_presets, delete_preset           *)
(*                                                                         *)
(* A name is the sequence of its characters; the five characters ".json"   *)
(* are kept as one element, so that endswith(".json") looks at the last    *)
(* element.  The presets directory is a function from file names to file   *)
(* contents: the JSON text of a dict, or Truncated for a file that was      *)
(* opened for writing and never completely written.  A storage fault is an *)
(* input of each call: the place where the operating system fails it.      *)

Json == ".json"
Truncated == "truncated"

\* str.lower() on one character
lower_char(c) == IF c = "A" THEN "a" ELSE IF c = "C" THEN "c" ELSE c

\* preset_name.replace(" ", "_").lower()
sanitize(name) ==
    [i \in 1..Len(name) |-> lower_char(IF name[i] = " " THEN "_" ELSE name[i])]

endswith_json(name) == Len(name) > 0 /\ name[Len(name)] = Json

with_json(name) == IF endswith_json(name) THEN name ELSE Append(name, Json)

\* os.path.splitext(f)[0] for a file name that ends with ".json"
splitext_root(f) == IF Len(f) = 1 THEN f ELSE SubSeq(f, 1, Len(f) - 1)

\* Write that leaves the directory with this one file.
write_file_alone(fs, path, content) == [f \in {path} |-> content]

write_file(fs, path, content) ==
    [f \in (DOMAIN fs) \cup {path} |-> IF f = path THEN content ELSE fs[f]]

remove_file(fs, path) == [f \in (DOMAIN fs) \ {path} |-> fs[f]]

\* What a call did: the value returned, the directory afterwards and the
\* exception that left it; ret has no meaning when an exception left the call.
Outcome(ret, fs, e) == [ret |-> ret, files |-> fs, raised |-> e]

\* The try block of save_preset (lines 124-139)
save_preset_try(fs, preset_name, preset_data, fault) ==
    LET preset_path == with_json(sanitize(preset_name))
    IN  IF fault = "open" THEN Outcome(FALSE, fs, "OSError")
        ELSE IF fault = "dump"
        THEN Outcome(FALSE, write_file(fs, preset_path, Truncated), "OSError")
        ELSE Outcome(TRUE, write_file(fs, preset_path, preset_data), None)

\* save_preset without its except clause
save_preset_uncaught(fs, preset_name, preset_data, fault) ==
    save_preset_try(fs, preset_name, preset_data, fault)

save_preset(fs, preset_name, preset_data, fault) ==
    LET t == save_preset_try(fs, preset_name, preset_data, fault)
    IN  IF t.raised # None THEN Outcome(FALSE, t.files, None) ELSE t

\* The try block of load_preset (lines 159-176)
load_preset_try(fs, preset_name, fault) ==
    LET preset_path == with_json(preset_name)
    IN  IF preset_path \in DOMAIN fs
        THEN IF fault = "read" THEN Outcome(None, fs, "OSError")
             ELSE IF fs[preset_path] = Truncated THEN Outcome(None, fs, "JSONDecodeError")
             ELSE Outcome(fs[preset_path], fs, None)
        ELSE Outcome(None, fs, None)

load_preset(fs, preset_name, fault) ==
    LET t == load_preset_try(fs, preset_name, fault)
    IN  IF t.raised # None THEN Outcome(None, t.files, None) ELSE t

\* The try block of get_all_presets (lines 191-200); the list is in the
\* order of os.listdir, which is arbitrary: the result is kept as a set.
get_all_presets_try(fs, fault) ==
    IF fault = "listdir" THEN Outcome({}, fs, "OSError")
    ELSE Outcome({splitext_root(f) : f \in {g \in DOMAIN fs : endswith_json(g)}}, fs, None)

get_all_presets(fs, fault) ==
    LET t == get_all_presets_try(fs, fault)
    IN  IF t.raised # None THEN Outcome({}, t.files, None) ELSE t

\* The try block of delete_preset (lines 220-236)
delete_preset_try(fs, preset_name, fault) ==
    LET preset_path == with_json(preset_name)
    IN  IF preset_path \in DOMAIN fs
        THEN IF fault = "remove" THEN Outcome(FALSE, fs, "OSError")
             ELSE Outcome(TRUE, remove_file(fs, preset_path), None)
        ELSE Outcome(FALSE, fs, None)

delete_preset(fs, preset_name, fault) ==
    LET t == delete_preset_try(fs, preset_name, fault)
    IN  IF t.raised # None THEN Outcome(FALSE, t.files, None) ELSE t

-----------------------------------------------------------------------------
(* Preset-store calls: names with an upper-case letter, a space, an         *)
(* underscore and a ".json" ending, and two preset dicts.                   *)

PresetNames ==
    {<<"A", " ", "b">>, <<"a", "_", "b">>, <<"a", "_", "b", Json>>, <<"c">>, <<"C">>}
PresetData == {"preset_1", "preset_2"}

\* The record of a call: ok is the bool save_preset / delete_preset returned,
\* loaded what load_preset returned, names what get_all_presets returned.
Call(op, name, data, fault, ok, loaded, names, e) ==
    [op |-> op, name |-> name, data |-> data, fault |-> fault,
     ok |-> ok, loaded |-> loaded, names |-> names, raised |-> e]

InitStore ==
    /\ files = <<>>
    /\ last = Call("none", <<>>, None, "none", FALSE, None, {}, None)
    /\ PriceIdle
    /\ MultiIdle
    /\ RateIdle
    /\ AppIdle

SavePreset ==
    \E name \in PresetNames, data \in PresetData, fault \in {"none", "open", "dump"} :
        LET o == save_preset(files, name, data, fault)
        IN  /\ files' = o.files
            /\ last' = Call("save", name, data, fault, o.ret, None, {}, o.raised)
            /\ UNCHANGED <<priceVars, multiVars, rateVars, appVars>>

LoadPreset ==
    \E name \in PresetNames, fault \in {"none", "read"} :
        LET o == load_preset(files, name, fault)
        IN  /\ files' = o.files
            /\ last' = Call("load", name, None, fault, FALSE, o.ret, {}, o.raised)
            /\ UNCHANGED <<priceVars, multiVars, rateVars, appVars>>

GetAllPresets ==
    \E fault \in {"none", "listdir"} :
        LET o == get_all_presets(files, fault)
        IN  /\ files' = o.files
            /\ last' = Call("list", <<>>, None, fault, FALSE, None, o.ret, o.raised)
            /\ UNCHANGED <<priceVars, multiVars, rateVars, appVars>>

DeletePreset ==
    \E name \in PresetNames, fault \in {"none", "remove"} :
        LET o == delete_preset(files, name, fault)
        IN  /\ files' = o.files
            /\ last' = Call("delete", name, None, fault, o.ret, None, {}, o.raised)
            /\ UNCHANGED <<priceVars, multiVars, rateVars, appVars>>

NextStore == SavePreset \/ LoadPreset \/ GetAllPresets \/ DeletePreset

SpecStore == InitStore /\ [][NextStore]_vars

-----------------------------------------------------------------------------
(* Claims about the preset store, under SpecStore.                          *)

\* C18: after save_preset(name, record) returned True, load_preset(name) with
\* the same user-given name returns record and delete_preset(name) removes the
\* preset, for every name.
C18_SaveThenLoadOrDeleteSameName ==
    [][(/\ last.op = "save"
        /\ last.ok
        /\ last'.name = last.name
        /\ last'.fault = "none") =>
           /\ last'.op = "load" => last'.loaded = last.data
           /\ last'.op = "delete" =>
                 /\ last'.ok
                 /\ with_json(sanitize(last.name)) \notin DOMAIN files']_vars

\* A call failed by the operating system, or by a file that does not parse
C19_Failed ==
    \/ last.fault \in {"open", "dump", "read", "remove", "listdir"}
    \/ /\ last.op = "load"
       /\ with_json(last.name) \in DOMAIN files
       /\ files[with_json(last.name)] = Truncated

\* C19: no exception leaves a preset-store call; a failed save or delete
\* returns False, a failed load returns None, a failed listing returns the
\* empty list; loading or deleting a preset that does not exist returns
\* None / False and leaves the stored presets as they were.
C19_FailuresAreReturned ==
    /\ [](/\ last.raised = None
          /\ C19_Failed =>
                /\ last.op \in {"save", "delete"} => ~last.ok
                /\ last.op = "load" => last.loaded = None
                /\ last.op = "list" => last.names = {})
    /\ [][(/\ last'.op \in {"load", "delete"}
           /\ with_json(last'.name) \notin DOMAIN files) =>
              /\ files' = files
              /\ last'.op = "load" => last'.loaded = None
              /\ last'.op = "delete" => ~last'.ok]_vars

C19_Witness ==
    /\ last.op = "save"
    /\ last.fault = "dump"
    /\ ~last.ok
    /\ with_json(sanitize(last.name)) \in DOMAIN files
    /\ files[with_json(sanitize(last.name))] = Truncated

\* The file save_preset writes for a user-given name
C24_PathOf(name) == with_json(sanitize(name))

\* C24 as stated: a save under one user-given name leaves the record that the
\* save before it stored under a different user-given name as it was.
C24_DistinctNamesDistinctPresets ==
    [][(/\ last.op = "save"
        /\ last.ok
        /\ last'.op = "save"
        /\ last'.name # last.name) =>
           /\ C24_PathOf(last.name) \in DOMAIN files'
           /\ files'[C24_PathOf(last.name)] = last.data]_vars

\* C24, amended: a save creates, replaces or changes no file but the one
\* named by the sanitized form of its name, so that a save under a name with
\* a different sanitized form leaves the record stored by the save before it
\* as it was.
C24_SaveChangesOnlyItsSanitizedFile ==
    [][last'.op = "save" =>
          /\ \A f \in (DOMAIN files) \cup (DOMAIN files') :
                f # C24_PathOf(last'.name) =>
                    /\ f \in DOMAIN files
                    /\ f \in DOMAIN files'
                    /\ files'[f] = files[f]
          /\ (/\ last.op = "save"
              /\ last.ok
              /\ C24_PathOf(last'.name) # C24_PathOf(last.name)) =>
                 /\ C24_PathOf(last.name) \in DOMAIN files'
                 /\ files'[C24_PathOf(last.name)] = last.data]_vars

C24_Witness ==
    /\ last.op = "save"
    /\ last.ok
    /\ last.name = <<"c">>
    /\ last.data = "preset_2"
    /\ DOMAIN files = {<<"a", "_", "b", Json>>, <<"c", Json>>}
    /\ files[<<"a", "_", "b", Json>>] = "preset_1"
    /\ files[<<"c", Json>>] = "preset_2"

-----------------------------------------------------------------------------
(* app.py: the two form flows.  Streamlit runs the script from top to       *)
(* bottom once per interaction, so a run is never interleaved with another; *)
(* st.session_state outlives the run.  A run that submits a form goes       *)
(* through the positions of its handler one after the other.                *)

NoMessage == [kind |-> "none", text |-> ""]
Message(kind, text) == [kind |-> kind, text |-> text]

\* The pricing parameters a call of the engine or of the validator is given
Params(p) ==
    [machine_cost_per_hour    |-> p.machine_cost_per_hour,
     material_cost_per_unit   |-> p.material_cost_per_unit,
     production_time_minutes  |-> p.production_time_minutes,
     overhead_percentage      |-> p.overhead_percentage,
     profit_margin_percentage |-> p.profit_margin_percentage]

CallOf(fn, p, accepted) == [fn |-> fn, params |-> Params(p), accepted |-> accepted]

\* Handler that goes on to the calculation whatever the validator answered.
step_after_validation_unchecked(validation_result) == "calculate"

\* "if not validation_result: st.error(message) else: ..." (lines 272-274, 662-664)
step_after_validation(validation_result) ==
    IF ~validation_result THEN "error" ELSE "calculate"

\* The widgets of manufacturing_form, within their min_value / max_value
MainForms ==
    [kind                     : {"manufacturing_form"},
     machine_cost_per_hour    : {Q(0), Q(60)},
     material_cost_per_unit   : {Q(0), Q(2)},
     additional_material_cost : {Q(0)},
     production_time_minutes  : {Q(0), Q(6)},
     overhead_percentage      : {Q(20)},
     profit_margin_percentage : {Q(25)},
     batch_size               : {1, 3}]

\* The widgets of multi_quantity_form; quantities are the six inputs after
\* sorted(list(set(...))) (line 649)
MultiForms ==
    [kind                    : {"multi_quantity_form"},
     setup_time_minutes      : {Q(0), Q(30)},
     setup_cost_per_hour     : {PyNone, Some(Q(40))},
     material_discount_tiers : {<<>>, << <<10, Q(5)>>, <<50, Q(10)>>, <<100, Q(15)>> >>},
     quantities              : {<<1>>, <<1, 10>>, <<10, 75>>}]

\* Stored parameters with the machine and material costs in each other's place.
submitted_params_swapped(f) ==
    [machine_cost_per_hour    |-> f.material_cost_per_unit,
     material_cost_per_unit   |-> f.machine_cost_per_hour,
     production_time_minutes  |-> f.production_time_minutes,
     overhead_percentage      |-> f.overhead_percentage,
     profit_margin_percentage |-> f.profit_margin_percentage,
     additional_material_cost |-> f.additional_material_cost,
     batch_size               |-> f.batch_size]

\* st.session_state['submitted_params'] = {...} (lines 250-258)
submitted_params(f) ==
    [machine_cost_per_hour    |-> f.machine_cost_per_hour,
     material_cost_per_unit   |-> f.material_cost_per_unit,
     production_time_minutes  |-> f.production_time_minutes,
     overhead_percentage      |-> f.overhead_percentage,
     profit_margin_percentage |-> f.profit_margin_percentage,
     additional_material_cost |-> f.additional_material_cost,
     batch_size               |-> f.batch_size]

\* The "missing required parameters" test of lines 634-640
missing(params) ==
    \/ RZero(params.machine_cost_per_hour)
    \/ RZero(params.material_cost_per_unit)
    \/ RZero(params.production_time_minutes)

\* max(quantities) of a sorted list
max_quantity(quantities) == quantities[Len(quantities)]

\* The arguments of calculate_price at lines 276-286
main_price_args(f) ==
    [machine_cost_per_hour    |-> f.machine_cost_per_hour,
     material_cost_per_unit   |-> f.material_cost_per_unit,
     production_time_minutes  |-> f.production_time_minutes,
     labor_cost_per_hour      |-> Q(0),
     overhead_percentage      |-> f.overhead_percentage,
     profit_margin_percentage |-> f.profit_margin_percentage,
     additional_material_cost |-> f.additional_material_cost,
     batch_size               |-> f.batch_size,
     include_labor_cost       |-> FALSE]

\* The arguments of calculate_multi_quantity_prices at lines 666-679
multi_price_args(params, f) ==
    [machine_cost_per_hour    |-> params.machine_cost_per_hour,
     material_cost_per_unit   |-> params.material_cost_per_unit,
     production_time_minutes  |-> params.production_time_minutes,
     setup_time_minutes       |-> f.setup_time_minutes,
     quantities               |-> f.quantities,
     setup_cost_per_hour      |-> f.setup_cost_per_hour,
     material_discount_tiers  |-> Some(f.material_discount_tiers),
     overhead_percentage      |-> params.overhead_percentage,
     profit_margin_percentage |-> params.profit_margin_percentage,
     additional_material_cost |-> params.additional_material_cost,
     include_labor_cost       |-> FALSE,
     labor_cost_per_hour      |-> Q(0)]

\* calculate_multi_quantity_prices as one call: the exception that leaves the
\* loop, or None when every quantity got its record
RECURSIVE multi_call_raised(_, _)
multi_call_raised(m, i) ==
    IF i > Len(m.quantities) THEN None
    ELSE LET rec == quantity_record(
                      m, default_setup_cost_per_hour(m.setup_cost_per_hour, m.machine_cost_per_hour),
                      default_material_discount_tiers(m.material_discount_tiers), m.quantities[i])
         IN  IF rec.raised # None THEN rec.raised ELSE multi_call_raised(m, i + 1)

InitApp ==
    /\ session = PyNone
    /\ form = [kind |-> "none"]
    /\ app_validation = PyNone
    /\ calls = <<>>
    /\ shown = NoMessage
    /\ app_pc = "idle"
    /\ PriceIdle
    /\ MultiIdle
    /\ RateIdle
    /\ StoreIdle

\* lines 247-259: the main form is submitted; its values are stored
SubmitMain ==
    /\ app_pc = "idle"
    /\ \E f \in MainForms :
          /\ form' = f
          /\ session' = Some(submitted_params(f))
    /\ app_validation' = PyNone
    /\ calls' = <<>>
    /\ shown' = NoMessage
    /\ app_pc' = "main_validate"
    /\ UNCHANGED <<priceVars, multiVars, rateVars, storeVars>>

\* lines 261-273: validate_inputs, and st.error(message) when it rejects
MainValidate ==
    /\ app_pc = "main_validate"
    /\ LET v == validate_inputs(form.machine_cost_per_hour, form.material_cost_per_unit,
                                form.production_time_minutes, Q(0), form.overhead_percentage,
                                form.profit_margin_percentage, form.batch_size)
       IN  /\ app_validation' = Some(v)
           /\ calls' = Append(calls, CallOf("validate_inputs", form, v[1]))
           /\ IF step_after_validation(v[1]) = "error"
              THEN /\ shown' = Message("error", v[2])
                   /\ app_pc' = "idle"
              ELSE /\ shown' = shown
                   /\ app_pc' = "main_calculate"
    /\ UNCHANGED <<session, form>>
    /\ UNCHANGED <<priceVars, multiVars, rateVars, storeVars>>

\* lines 274-286 and the display after them: calculate_price
MainCalculate ==
    /\ app_pc = "main_calculate"
    /\ LET o == calculate_price(main_price_args(form))
       IN  shown' = IF o.raised # None THEN Message("exception", o.raised)
                    ELSE Message("results", "Rezultati")
    /\ calls' = Append(calls, CallOf("calculate_price", form, FALSE))
    /\ app_pc' = "idle"
    /\ UNCHANGED <<session, form, app_validation>>
    /\ UNCHANGED <<priceVars, multiVars, rateVars, storeVars>>

\* lines 619-649: the multi-quantity form is submitted
SubmitMulti ==
    /\ app_pc = "idle"
    /\ \E f \in MultiForms : form' = f
    /\ app_validation' = PyNone
    /\ calls' = <<>>
    /\ IF session = PyNone
       THEN /\ shown' = Message("error", "Please fill out and submit the main Manufacturing Parameters form first.")
            /\ app_pc' = "idle"
       ELSE IF missing(session[1])
       THEN /\ shown' = Message("error", "Missing required parameters")
            /\ app_pc' = "idle"
       ELSE /\ shown' = NoMessage
            /\ app_pc' = "multi_validate"
    /\ UNCHANGED session
    /\ UNCHANGED <<priceVars, multiVars, rateVars, storeVars>>

\* lines 651-663: validate_inputs on the stored parameters and max(quantities)
MultiValidate ==
    /\ app_pc = "multi_validate"
    /\ LET params == session[1]
           v == validate_inputs(params.machine_cost_per_hour, params.material_cost_per_unit,
                                params.production_time_minutes, Q(0),
                                params.overhead_percentage, params.profit_margin_percentage,
                                max_quantity(form.quantities))
       IN  /\ app_validation' = Some(v)
           /\ calls' = Append(calls, CallOf("validate_inputs", params, v[1]))
           /\ IF step_after_validation(v[1]) = "error"
              THEN /\ shown' = Message("error", v[2])
                   /\ app_pc' = "idle"
              ELSE /\ shown' = shown
                   /\ app_pc' = "multi_calculate"
    /\ UNCHANGED <<session, form>>
    /\ UNCHANGED <<priceVars, multiVars, rateVars, storeVars>>

\* lines 664-679 and the display after them: calculate_multi_quantity_prices
MultiCalculate ==
    /\ app_pc = "multi_calculate"
    /\ \E m \in {multi_price_args(session[1], form)} :
          \E e \in {multi_call_raised(m, 1)} :
             shown' = IF e # None THEN Message("exception", e)
                      ELSE Message("results", "multi_qty_results")
    /\ calls' = Append(calls, CallOf("calculate_multi_quantity_prices", session[1], FALSE))
    /\ app_pc' = "idle"
    /\ UNCHANGED <<session, form, app_validation>>
    /\ UNCHANGED <<priceVars, multiVars, rateVars, storeVars>>

NextApp ==
    \/ SubmitMain
    \/ MainValidate
    \/ MainCalculate
    \/ SubmitMulti
    \/ MultiValidate
    \/ MultiCalculate

SpecApp == InitApp /\ [][NextApp]_vars

-----------------------------------------------------------------------------
(* Claims about the form flows, under SpecApp.                              *)

C20_Calculations == {"calculate_price", "calculate_multi_quantity_prices"}

\* The parameters this submission works on: the form's in the main flow, the
\* stored ones in the multi-quantity flow
C20_SubmissionParams ==
    IF form.kind = "manufacturing_form" THEN Params(form) ELSE Params(session[1])

\* C20: within one submission, calculate_price and
\* calculate_multi_quantity_prices are called only after validate_inputs has
\* accepted the parameters of that submission; when validate_inputs rejects,
\* its reason is shown and no calculation is called.
C20_ValidationPrecedesCalculation ==
    /\ \A i \in 1..Len(calls) :
          calls[i].fn \in C20_Calculations =>
              /\ calls[i].fn = IF form.kind = "manufacturing_form"
                               THEN "calculate_price"
                               ELSE "calculate_multi_quantity_prices"
              /\ calls[i].params = C20_SubmissionParams
              /\ \E j \in 1..(i - 1) :
                    /\ calls[j].fn = "validate_inputs"
                    /\ calls[j].accepted
                    /\ calls[j].params = calls[i].params
    /\ (app_validation # PyNone /\ ~app_validation[1][1]) =>
          /\ shown = Message("error", app_validation[1][2])
          /\ app_pc = "idle"
          /\ \A i \in 1..Len(calls) : calls[i].fn \notin C20_Calculations

C20_Witness ==
    /\ app_pc = "idle"
    /\ form.kind = "multi_quantity_form"
    /\ Len(calls) = 2
    /\ calls[1].fn = "validate_inputs"
    /\ calls[1].accepted
    /\ calls[2].fn = "calculate_multi_quantity_prices"
    /\ shown.kind = "results"


-----------------------------------------------------------------------------
(* The stored parameters of the main form, under SpecApp.                   *)

C23_MultiSubmitted == app_pc = "idle" /\ form'.kind = "multi_quantity_form"

\* C23: a multi-quantity submission with no stored submitted_params shows an
\* error and calls no calculation; the stored parameters are those of the
\* latest main-form submission, stored before it is validated and changed by
\* nothing else; calculate_multi_quantity_prices is called with them.
C23_MultiUsesStoredMainParams ==
    /\ [](/\ \A i \in 1..Len(calls) :
                calls[i].fn = "calculate_multi_quantity_prices" =>
                    /\ session # PyNone
                    /\ calls[i].params = Params(session[1])
          /\ app_pc = "main_validate" =>
                /\ calls = <<>>
                /\ session # PyNone
                /\ Params(session[1]) = Params(form)
                /\ session[1].additional_material_cost = form.additional_material_cost
                /\ session[1].batch_size = form.batch_size)
    /\ [][/\ (C23_MultiSubmitted /\ session = PyNone) =>
                /\ shown'.kind = "error"
                /\ app_pc' = "idle"
                /\ calls' = <<>>
          /\ session' # session => app_pc' = "main_validate"
          /\ app_pc' = "multi_calculate" => session # PyNone]_vars

C23_Witness ==
    /\ app_pc = "idle"
    /\ form.kind = "multi_quantity_form"
    /\ form.quantities = <<10, 75>>
    /\ session # PyNone
    /\ session[1].machine_cost_per_hour = Q(60)
    /\ session[1].material_cost_per_unit = Q(2)
    /\ Len(calls) = 2
    /\ calls[2].fn = "calculate_multi_quantity_prices"
    /\ calls[2].params.machine_cost_per_hour = Q(60)

====
